---- MODULE Spec2Model ----
(***************************************************************************)
(* Model of tool_extractor: the public-API-surface extractor.              *)
(*                                                                         *)
(*   filesystem.py  is_excluded_path, discover_python_files                *)
(*   extractor.py   _read_and_parse .. extract_tools (two passes)          *)
(*   cli.py         main (directory check, sort by (module, name))         *)
(*                                                                         *)
(* Python strings are TLA+ strings; startswith, endswith, split, join and  *)
(* the comparison of strings are computed character by character.          *)
(* Python's None is the empty string for optional strings (an identifier   *)
(* or a dotted name is never empty) and the empty sequence for optional    *)
(* nodes.  A Python dict is a sequence of <<key, value>> pairs in          *)
(* insertion order; assigning to an existing key keeps its position.       *)
(***************************************************************************)
EXTENDS Integers, Sequences, FiniteSets, TLC

None == ""

----------------------------------------------------------------------------
(* Strings *)

StartsWith(s, p) == Len(s) >= Len(p) /\ SubSeq(s, 1, Len(p)) = p

EndsWith(s, p) == Len(s) >= Len(p) /\ SubSeq(s, Len(s) - Len(p) + 1, Len(s)) = p

CharAt(s, i) == SubSeq(s, i, i)

RECURSIVE SplitFrom(_, _, _, _)
SplitFrom(s, sep, i, start) ==
    IF i > Len(s) THEN <<SubSeq(s, start, Len(s))>>
    ELSE IF CharAt(s, i) = sep
         THEN <<SubSeq(s, start, i - 1)>> \o SplitFrom(s, sep, i + 1, i + 1)
         ELSE SplitFrom(s, sep, i + 1, start)

\* str.split(sep) for a one-character separator
Split(s, sep) == SplitFrom(s, sep, 1, 1)

RECURSIVE Join(_, _)
\* sep.join(parts)
Join(parts, sep) ==
    IF parts = <<>> THEN ""
    ELSE IF Len(parts) = 1 THEN parts[1]
    ELSE parts[1] \o sep \o Join(Tail(parts), sep)

\* str.replace(old, new) for a one-character old
Replace(s, old, new) == Join(Split(s, old), new)

\* the characters of the model in code-point order
Alphabet == "*,./:=_abcdefghijklmnopqrstuvwxyz"

Ord(c) == CHOOSE i \in 1..Len(Alphabet) : CharAt(Alphabet, i) = c

RECURSIVE StrLessFrom(_, _, _)
StrLessFrom(a, b, i) ==
    IF i > Len(b) THEN FALSE
    ELSE IF i > Len(a) THEN TRUE
    ELSE IF CharAt(a, i) = CharAt(b, i) THEN StrLessFrom(a, b, i + 1)
    ELSE Ord(CharAt(a, i)) < Ord(CharAt(b, i))

\* a < b on Python strings
StrLess(a, b) == StrLessFrom(a, b, 1)

RECURSIVE SeqLessFrom(_, _, _)
SeqLessFrom(a, b, i) ==
    IF i > Len(b) THEN FALSE
    ELSE IF i > Len(a) THEN TRUE
    ELSE IF a[i] = b[i] THEN SeqLessFrom(a, b, i + 1)
    ELSE StrLess(a[i], b[i])

\* a < b on tuples or lists of strings
SeqLess(a, b) == SeqLessFrom(a, b, 1)

----------------------------------------------------------------------------
(* Dicts *)

DictKeys(d) == [i \in 1..Len(d) |-> d[i][1]]

DictHas(d, k) == \E i \in 1..Len(d) : d[i][1] = k

DictGet(d, k) == d[CHOOSE i \in 1..Len(d) : d[i][1] = k][2]

\* d.get(k, default)
DictGetOr(d, k, default) == IF DictHas(d, k) THEN DictGet(d, k) ELSE default

\* d[k] = v
DictSet(d, k, v) ==
    IF DictHas(d, k)
    THEN [i \in 1..Len(d) |-> IF d[i][1] = k THEN <<k, v>> ELSE d[i]]
    ELSE Append(d, <<k, v>>)

----------------------------------------------------------------------------
(* filesystem.py *)

EXCLUDED_DIR_NAMES ==
    {"tests", "test", "docs", "examples", ".venv", "build", "dist", ".git",
     "__pycache__", ".mypy_cache", ".pytest_cache"}

\* Path.parts of a path relative to the root (a posix string)
Parts(rel) == Split(rel, "/")

\* Path.name
Basename(rel) == Parts(rel)[Len(Parts(rel))]

\* is_excluded_path looking at the directories of the path only
is_excluded_path_parents(rel) ==
    \E i \in 1..(Len(Parts(rel)) - 1) :
        LET part == Parts(rel)[i]
        IN  \/ part \in EXCLUDED_DIR_NAMES
            \/ StartsWith(part, ".") /\ part \notin {".", ".."}

\* is_excluded_path, for a path under repo_root
is_excluded_path(rel) ==
    \E i \in 1..Len(Parts(rel)) :
        LET part == Parts(rel)[i]
        IN  \/ part \in EXCLUDED_DIR_NAMES
            \/ StartsWith(part, ".") /\ part \notin {".", ".."}

\* repo_root.rglob("*.py"): every entry below the root whose name ends in .py
RGlob(t) == {p \in DOMAIN t : EndsWith(Basename(p), ".py")}

\* Path.__lt__: paths compare by their parts
PathLess(a, b) == SeqLess(Parts(a), Parts(b))

RECURSIVE SortedPaths(_)
\* sorted(paths)
SortedPaths(S) ==
    IF S = {} THEN <<>>
    ELSE LET least == CHOOSE p \in S : \A q \in S \ {p} : PathLess(p, q)
         IN  <<least>> \o SortedPaths(S \ {least})

\* Path.is_file()
IsFile(t, p) == t[p].status # "dir"

RECURSIVE Yielded(_, _)
Yielded(t, candidates) ==
    IF candidates = <<>> THEN <<>>
    ELSE LET path == Head(candidates)
             rest == Yielded(t, Tail(candidates))
         IN  IF is_excluded_path(path) THEN rest
             ELSE IF ~IsFile(t, path) THEN rest
             ELSE <<path>> \o rest

\* discover_python_files: the sequence of paths the generator yields
discover_python_files(t) == Yielded(t, SortedPaths(RGlob(t)))

----------------------------------------------------------------------------
(* extractor.py: the syntax tree and the pure helpers *)

(* A parsed module is the sequence of its top-level statements:            *)
(*   [node |-> "FunctionDef" or "AsyncFunctionDef", name, args, returns,   *)
(*    doc, lineno]     doc is the cleaned docstring as a list of lines     *)
(*   [node |-> "Assign", targets, value |-> [node, elts]]                  *)
(*                     targets are the assigned names, elts the string     *)
(*                     constants of a literal container                    *)
(*   [node |-> "ImportFrom", module, level, names |-> <<[name, asname]>>]  *)
(* An annotation node is the source text it spans.                         *)

IsFunction(n) == n.node \in {"FunctionDef", "AsyncFunctionDef"}

\* _read_and_parse: TRUE when it returns (None, None)
ReadFails(entry) == entry.status \in {"oserror", "decode", "syntax"}

\* _collect_string_constants
_collect_string_constants(value) ==
    IF value.node \in {"List", "Tuple", "Set"}
    THEN {value.elts[i] : i \in 1..Len(value.elts)}
    ELSE {}

\* _extract_literal_all
_extract_literal_all(body) ==
    UNION {_collect_string_constants(body[i].value) :
             i \in {j \in 1..Len(body) :
                      /\ body[j].node = "Assign"
                      /\ \E t \in 1..Len(body[j].targets) : body[j].targets[t] = "__all__"}}

\* _extract_top_level_functions
_extract_top_level_functions(body) == SelectSeq(body, IsFunction)

_is_public_no_all(name, literal_all) == ~StartsWith(name, "_")

\* _is_public
_is_public(name, literal_all) == (~StartsWith(name, "_")) \/ (name \in literal_all)

\* _get_annotation_text
_get_annotation_text(annotation) == annotation

\* _format_param without the default marker
_format_param_unmarked(name, ann, default) ==
    IF ann # None THEN name \o ": " \o ann ELSE name

\* _format_param
_format_param(name, ann, default) ==
    LET base == IF ann # None THEN name \o ": " \o ann ELSE name
    IN  IF default THEN base \o "=..." ELSE base

\* _render_signature putting the bare "*" before every keyword-only group
_render_signature_star_always(fn) ==
    LET args == fn.args
        positional_params == args.posonlyargs \o args.args
        num_positional == Len(positional_params)
        num_positional_defaults == Len(args.defaults)
        first_default_index ==
            IF num_positional_defaults # 0
            THEN num_positional - num_positional_defaults
            ELSE num_positional
        posonly == [i \in 1..Len(args.posonlyargs) |->
                      _format_param(args.posonlyargs[i].arg,
                                    _get_annotation_text(args.posonlyargs[i].annotation),
                                    (i - 1) >= first_default_index)]
        slash == IF args.posonlyargs # <<>> THEN <<"/">> ELSE <<>>
        poskw == [i \in 1..Len(args.args) |->
                    _format_param(args.args[i].arg,
                                  _get_annotation_text(args.args[i].annotation),
                                  (Len(args.posonlyargs) + (i - 1)) >= first_default_index)]
        vararg == IF args.vararg # <<>>
                  THEN <<_format_param("*" \o args.vararg[1].arg,
                                       _get_annotation_text(args.vararg[1].annotation), FALSE)>>
                  ELSE <<>>
        star == IF args.kwonlyargs # <<>> THEN <<"*">> ELSE <<>>
        kwonly == [i \in 1..Len(args.kwonlyargs) |->
                     _format_param(args.kwonlyargs[i].arg,
                                   _get_annotation_text(args.kwonlyargs[i].annotation),
                                   args.kw_defaults[i] # None)]
        kwarg == IF args.kwarg # <<>>
                 THEN <<_format_param("**" \o args.kwarg[1].arg,
                                      _get_annotation_text(args.kwarg[1].annotation), FALSE)>>
                 ELSE <<>>
        parts == posonly \o slash \o poskw \o vararg \o star \o kwonly \o kwarg
        params_rendered == Join(parts, ", ")
        return_ann == _get_annotation_text(fn.returns)
        kind == IF fn.node = "AsyncFunctionDef" THEN "async def" ELSE "def"
    IN  IF return_ann # None
        THEN kind \o " " \o fn.name \o "(" \o params_rendered \o ") -> " \o return_ann
        ELSE kind \o " " \o fn.name \o "(" \o params_rendered \o ")"

\* _render_signature
_render_signature(fn) ==
    LET args == fn.args
        positional_params == args.posonlyargs \o args.args
        num_positional == Len(positional_params)
        num_positional_defaults == Len(args.defaults)
        first_default_index ==
            IF num_positional_defaults # 0
            THEN num_positional - num_positional_defaults
            ELSE num_positional
        \* indices are 0-based in the source: enumerate() index = i - 1
        posonly == [i \in 1..Len(args.posonlyargs) |->
                      _format_param(args.posonlyargs[i].arg,
                                    _get_annotation_text(args.posonlyargs[i].annotation),
                                    (i - 1) >= first_default_index)]
        slash == IF args.posonlyargs # <<>> THEN <<"/">> ELSE <<>>
        poskw == [i \in 1..Len(args.args) |->
                    _format_param(args.args[i].arg,
                                  _get_annotation_text(args.args[i].annotation),
                                  (Len(args.posonlyargs) + (i - 1)) >= first_default_index)]
        vararg == IF args.vararg # <<>>
                  THEN <<_format_param("*" \o args.vararg[1].arg,
                                       _get_annotation_text(args.vararg[1].annotation), FALSE)>>
                  ELSE <<>>
        star == IF args.kwonlyargs # <<>> /\ args.vararg = <<>> THEN <<"*">> ELSE <<>>
        kwonly == [i \in 1..Len(args.kwonlyargs) |->
                     _format_param(args.kwonlyargs[i].arg,
                                   _get_annotation_text(args.kwonlyargs[i].annotation),
                                   args.kw_defaults[i] # None)]
        kwarg == IF args.kwarg # <<>>
                 THEN <<_format_param("**" \o args.kwarg[1].arg,
                                      _get_annotation_text(args.kwarg[1].annotation), FALSE)>>
                 ELSE <<>>
        parts == posonly \o slash \o poskw \o vararg \o star \o kwonly \o kwarg
        params_rendered == Join(parts, ", ")
        return_ann == _get_annotation_text(fn.returns)
        kind == IF fn.node = "AsyncFunctionDef" THEN "async def" ELSE "def"
    IN  IF return_ann # None
        THEN kind \o " " \o fn.name \o "(" \o params_rendered \o ") -> " \o return_ann
        ELSE kind \o " " \o fn.name \o "(" \o params_rendered \o ")"

\* _normalize_module_name
_normalize_module_name(mod) ==
    IF StartsWith(mod, "src.") THEN SubSeq(mod, Len("src.") + 1, Len(mod)) ELSE mod

\* _module_name_for, for a path relative to the root
_module_name_for(rel) ==
    LET mod0 == Replace(SubSeq(rel, 1, Len(rel) - 3), "/", ".")
        mod == IF EndsWith(mod0, ".__init__")
               THEN SubSeq(mod0, 1, Len(mod0) - Len(".__init__"))
               ELSE mod0
    IN  _normalize_module_name(mod)

\* parts[:n] of a list, for any integer n
Take(parts, n) ==
    IF n >= 0 THEN SubSeq(parts, 1, IF n > Len(parts) THEN Len(parts) ELSE n)
    ELSE SubSeq(parts, 1, IF Len(parts) + n < 0 THEN 0 ELSE Len(parts) + n)

NonEmpty(p) == p # ""

\* _resolve_relative_module
_resolve_relative_module(current_module, module, level) ==
    IF level <= 0 THEN (IF module # None THEN module ELSE current_module)
    ELSE LET parts == Split(current_module, ".")
             base == Take(parts, Len(parts) - level + 1)
             prefix == Join(SelectSeq(base, NonEmpty), ".")
         IN  IF module # None
             THEN (IF prefix # "" THEN prefix \o "." \o module ELSE module)
             ELSE prefix

\* the first line of the docstring: (doc or "").strip().splitlines()[0], or ""
DocFirstLine(fn) == IF fn.doc # <<>> THEN fn.doc[1] ELSE ""

----------------------------------------------------------------------------
(* extractor.py: extract_tools, pass 1 *)

\* ToolRecord(...) for one top-level function of the file at rel
ToolRecordOf(rel, fn) ==
    [id             |-> _module_name_for(rel) \o ":" \o fn.name,
     module         |-> _module_name_for(rel),
     name           |-> fn.name,
     signature      |-> _render_signature(fn),
     doc_first_line |-> DocFirstLine(fn),
     file           |-> rel,
     lineno         |-> fn.lineno]

\* the records of the file's public top-level functions, in source order
FileRecords(rel, body) ==
    LET literal_all == _extract_literal_all(body)
        fns == _extract_top_level_functions(body)
        Public(fn) == _is_public(fn.name, literal_all)
        kept == SelectSeq(fns, Public)
    IN  [i \in 1..Len(kept) |-> ToolRecordOf(rel, kept[i])]

RECURSIVE IndexDefs(_, _)
\* defs_by_full[f"{module_name}.{fn.name}"] = record, for each record in order
IndexDefs(defs, records) ==
    IF records = <<>> THEN defs
    ELSE IndexDefs(DictSet(defs, Head(records).module \o "." \o Head(records).name,
                           Head(records)),
                   Tail(records))

\* d[pkg].setdefault(k, v): the first assignment of a key is kept
SetInner_first_wins(d, pkg, k, v) ==
    IF DictHas(DictGetOr(d, pkg, <<>>), k) THEN d
    ELSE DictSet(d, pkg, DictSet(DictGetOr(d, pkg, <<>>), k, v))

\* d[pkg][k] = v on a defaultdict(dict)
SetInner(d, pkg, k, v) == DictSet(d, pkg, DictSet(DictGetOr(d, pkg, <<>>), k, v))

RECURSIVE CollectNames(_, _, _, _)
\* the loop over node.names of one ImportFrom node of a package __init__;
\* maps is [exports, aliases]
CollectNames(maps, module_name, node, i) ==
    IF i > Len(node.names) THEN maps
    ELSE LET n == node.names[i]
             abs_mod == _resolve_relative_module(module_name, node.module, node.level)
         IN  IF node.module = None /\ node.level > 0
             THEN \* from . import subpkg as alias
                  LET alias == IF n.asname # None THEN n.asname ELSE n.name
                  IN  CollectNames([maps EXCEPT !.aliases =
                                      SetInner(maps.aliases, module_name, alias, n.name)],
                                   module_name, node, i + 1)
             ELSE IF n.name = "*"
                  THEN CollectNames(maps, module_name, node, i + 1)
                  ELSE LET exported_name == IF n.asname # None THEN n.asname ELSE n.name
                           origin == abs_mod \o "." \o n.name
                       IN  CollectNames([maps EXCEPT !.exports =
                                           SetInner(maps.exports, module_name,
                                                    exported_name, origin)],
                                        module_name, node, i + 1)

RECURSIVE CollectImports(_, _, _, _)
\* the loop over module.body of a package __init__
CollectImports(maps, module_name, body, i) ==
    IF i > Len(body) THEN maps
    ELSE IF body[i].node = "ImportFrom"
         THEN CollectImports(CollectNames(maps, module_name, body[i], 1),
                             module_name, body, i + 1)
         ELSE CollectImports(maps, module_name, body, i + 1)

\* all_by_package[module_name] |= literal_all, when literal_all is not empty
CollectAll(all, module_name, literal_all) ==
    IF literal_all # {}
    THEN DictSet(all, module_name, DictGetOr(all, module_name, {}) \cup literal_all)
    ELSE all

----------------------------------------------------------------------------
(* extractor.py: extract_tools, pass 2 *)

\* full.rsplit(".", 1)[0]
BeforeLastDot(full) ==
    LET parts == Split(full, ".")
    IN  IF Len(parts) = 1 THEN full ELSE Join(SubSeq(parts, 1, Len(parts) - 1), ".")

\* s.split(".")[-1]
LastSegment(s) == Split(s, ".")[Len(Split(s, "."))]

\* score, local to _public_exports_for_package
score(full, name) ==
    LET mod == BeforeLastDot(full)
        leaf == LastSegment(mod)
    IN  IF leaf = name THEN 3
        ELSE IF leaf = "_" \o name THEN 2
        ELSE 1

\* [full for full in defs_by_full.keys() if full.startswith(f"{prefix}.")]
Candidates(defs, prefix) ==
    LET Under(full) == StartsWith(full, prefix \o ".")
    IN  SelectSeq(DictKeys(defs), Under)

RECURSIVE BestByName_last_wins(_, _, _)
\* the loop over candidates replacing name_to_best also on an equal score
BestByName_last_wins(name_to_best, candidates, preferred_names) ==
    IF candidates = <<>> THEN name_to_best
    ELSE LET full == Head(candidates)
             name == LastSegment(full)
         IN  IF preferred_names # {} /\ name \notin preferred_names
             THEN BestByName_last_wins(name_to_best, Tail(candidates), preferred_names)
             ELSE IF \/ ~DictHas(name_to_best, name)
                     \/ score(full, name) >= score(DictGet(name_to_best, name), name)
                  THEN BestByName_last_wins(DictSet(name_to_best, name, full),
                                            Tail(candidates), preferred_names)
                  ELSE BestByName_last_wins(name_to_best, Tail(candidates), preferred_names)

RECURSIVE BestByName(_, _, _)
\* the loop over candidates that fills name_to_best
BestByName(name_to_best, candidates, preferred_names) ==
    IF candidates = <<>> THEN name_to_best
    ELSE LET full == Head(candidates)
             name == LastSegment(full)
         IN  IF preferred_names # {} /\ name \notin preferred_names
             THEN BestByName(name_to_best, Tail(candidates), preferred_names)
             ELSE IF \/ ~DictHas(name_to_best, name)
                     \/ score(full, name) > score(DictGet(name_to_best, name), name)
                  THEN BestByName(DictSet(name_to_best, name, full),
                                  Tail(candidates), preferred_names)
                  ELSE BestByName(name_to_best, Tail(candidates), preferred_names)

\* _public_exports_for_package
_public_exports_for_package(pkg, exports, all, defs) ==
    LET mapping == DictGetOr(exports, pkg, <<>>)
        preferred_names == DictGetOr(all, pkg, {})
        under_pkg == Candidates(defs, pkg)
        top == Split(pkg, ".")[1]
        candidates == IF under_pkg = <<>> THEN Candidates(defs, top) ELSE under_pkg
    IN  IF mapping # <<>> THEN mapping
        ELSE BestByName(<<>>, candidates, preferred_names)

\* _emit_public without the test of seen_ids: an export replaces the record of its id
_emit_public_replaces(out, defs, public_module, export_name, origin) ==
    IF ~DictHas(defs, origin) THEN out
    ELSE LET src == DictGet(defs, origin)
             rec_id == public_module \o ":" \o export_name
             Other(rec) == rec.id # rec_id
         IN  [results  |-> Append(SelectSeq(out.results, Other),
                                  [id             |-> rec_id,
                                   module         |-> public_module,
                                   name           |-> export_name,
                                   signature      |-> src.signature,
                                   doc_first_line |-> src.doc_first_line,
                                   file           |-> src.file,
                                   lineno         |-> src.lineno]),
              seen_ids |-> out.seen_ids \cup {rec_id}]

\* _emit_public with the duplicate test made on the origin's id
_emit_public_origin_id(out, defs, public_module, export_name, origin) ==
    IF ~DictHas(defs, origin) THEN out
    ELSE LET src == DictGet(defs, origin)
             rec_id == public_module \o ":" \o export_name
         IN  IF src.id \in out.seen_ids THEN out
             ELSE [results  |-> Append(out.results,
                                       [id             |-> rec_id,
                                        module         |-> public_module,
                                        name           |-> export_name,
                                        signature      |-> src.signature,
                                        doc_first_line |-> src.doc_first_line,
                                        file           |-> src.file,
                                        lineno         |-> src.lineno]),
                   seen_ids |-> out.seen_ids \cup {rec_id}]

\* _emit_public; out is [results, seen_ids]
_emit_public(out, defs, public_module, export_name, origin) ==
    IF ~DictHas(defs, origin) THEN out
    ELSE LET src == DictGet(defs, origin)
             rec_id == public_module \o ":" \o export_name
         IN  IF rec_id \in out.seen_ids THEN out
             ELSE [results  |-> Append(out.results,
                                       [id             |-> rec_id,
                                        module         |-> public_module,
                                        name           |-> export_name,
                                        signature      |-> src.signature,
                                        doc_first_line |-> src.doc_first_line,
                                        file           |-> src.file,
                                        lineno         |-> src.lineno]),
                   seen_ids |-> out.seen_ids \cup {rec_id}]

RECURSIVE EmitMapping(_, _, _, _)
\* for export_name, origin in mapping.items(): _emit_public(public_module, ...)
EmitMapping(out, defs, public_module, mapping) ==
    IF mapping = <<>> THEN out
    ELSE EmitMapping(_emit_public(out, defs, public_module, Head(mapping)[1], Head(mapping)[2]),
                     defs, public_module, Tail(mapping))

RECURSIVE Flatten(_)
Flatten(seqs) == IF seqs = <<>> THEN <<>> ELSE Head(seqs) \o Flatten(Tail(seqs))

\* the (parent_pkg, alias, subpkg) triples in the order the alias loops visit them
AliasItems(aliases) ==
    Flatten([i \in 1..Len(aliases) |->
               [j \in 1..Len(aliases[i][2]) |->
                  <<aliases[i][1], aliases[i][2][j][1], aliases[i][2][j][2]>>]])

----------------------------------------------------------------------------
(* extractor.py: extract_tools, the loop bodies on the analysis state      *)
(* ctx = [files_scanned, files_skipped, results, seen_ids, defs_by_full,   *)
(*        exports_by_package, aliases_by_package, all_by_package]          *)

\* the state extract_tools sets up before pass 1
Ctx0 ==
    [files_scanned |-> 0, files_skipped |-> 0, results |-> <<>>, seen_ids |-> {},
     defs_by_full |-> <<>>, exports_by_package |-> <<>>, aliases_by_package |-> <<>>,
     all_by_package |-> <<>>]

\* SkipStep without the count of the skip
SkipStep_uncounted(ctx) ==
    [ctx EXCEPT !.files_scanned = @ + 1]

\* one iteration of the pass-1 loop when _read_and_parse returns (None, None)
SkipStep(ctx) ==
    [ctx EXCEPT !.files_scanned = @ + 1, !.files_skipped = @ + 1]

\* one iteration of the pass-1 loop for a file that parses
ParseStep(ctx, file, body) ==
    LET module_name == _module_name_for(file)
        literal_all == _extract_literal_all(body)
        records == FileRecords(file, body)
        is_init == Basename(file) = "__init__.py"
        maps == CollectImports([exports |-> ctx.exports_by_package,
                                aliases |-> ctx.aliases_by_package],
                               module_name, body, 1)
    IN  [files_scanned      |-> ctx.files_scanned + 1,
         files_skipped      |-> ctx.files_skipped,
         results            |-> ctx.results \o records,
         seen_ids           |-> ctx.seen_ids \cup {records[i].id : i \in 1..Len(records)},
         defs_by_full       |-> IndexDefs(ctx.defs_by_full, records),
         exports_by_package |-> IF is_init THEN maps.exports ELSE ctx.exports_by_package,
         aliases_by_package |-> IF is_init THEN maps.aliases ELSE ctx.aliases_by_package,
         all_by_package     |-> IF is_init
                                THEN CollectAll(ctx.all_by_package, module_name, literal_all)
                                ELSE ctx.all_by_package]

\* direct_pkgs = set(exports_by_package.keys()) | set(all_by_package.keys())
DirectPkgs(ctx) ==
    {ctx.exports_by_package[i][1] : i \in 1..Len(ctx.exports_by_package)}
        \cup {ctx.all_by_package[i][1] : i \in 1..Len(ctx.all_by_package)}

\* one iteration of "for pkg in direct_pkgs"
DirectStep(ctx, pkg) ==
    LET mapping == _public_exports_for_package(pkg, ctx.exports_by_package,
                                               ctx.all_by_package, ctx.defs_by_full)
        out == EmitMapping([results |-> ctx.results, seen_ids |-> ctx.seen_ids],
                           ctx.defs_by_full, pkg, mapping)
    IN  [ctx EXCEPT !.results = out.results, !.seen_ids = out.seen_ids]

\* AliasStep publishing under the subpackage's name instead of the alias
AliasStep_subpkg_name(ctx, item) ==
    LET parent_pkg == item[1]
        subpkg == item[3]
        child_pkg == parent_pkg \o "." \o subpkg
        child_exports == _public_exports_for_package(child_pkg, ctx.exports_by_package,
                                                     ctx.all_by_package, ctx.defs_by_full)
        public_module == parent_pkg \o "." \o subpkg
        out == EmitMapping([results |-> ctx.results, seen_ids |-> ctx.seen_ids],
                           ctx.defs_by_full, public_module, child_exports)
    IN  [ctx EXCEPT !.results = out.results, !.seen_ids = out.seen_ids]

\* one iteration of the inner alias loop, item = <<parent_pkg, alias, subpkg>>
AliasStep(ctx, item) ==
    LET parent_pkg == item[1]
        alias == item[2]
        subpkg == item[3]
        child_pkg == parent_pkg \o "." \o subpkg
        child_exports == _public_exports_for_package(child_pkg, ctx.exports_by_package,
                                                     ctx.all_by_package, ctx.defs_by_full)
        public_module == parent_pkg \o "." \o alias
        out == EmitMapping([results |-> ctx.results, seen_ids |-> ctx.seen_ids],
                           ctx.defs_by_full, public_module, child_exports)
    IN  [ctx EXCEPT !.results = out.results, !.seen_ids = out.seen_ids]

RECURSIVE Pass1(_, _, _)
\* the pass-1 loop over the discovered files
Pass1(ctx, t, paths) ==
    IF paths = <<>> THEN ctx
    ELSE Pass1(IF ReadFails(t[Head(paths)]) THEN SkipStep(ctx)
               ELSE ParseStep(ctx, Head(paths), t[Head(paths)].body),
               t, Tail(paths))

RECURSIVE DirectLoop(_, _)
\* the loop over direct_pkgs, visited in one fixed order
DirectLoop(ctx, pkgs) ==
    IF pkgs = {} THEN ctx
    ELSE LET pkg == CHOOSE q \in pkgs : TRUE
         IN  DirectLoop(DirectStep(ctx, pkg), pkgs \ {pkg})

RECURSIVE AliasLoop(_, _)
\* the alias loops
AliasLoop(ctx, items) ==
    IF items = <<>> THEN ctx
    ELSE AliasLoop(AliasStep(ctx, Head(items)), Tail(items))

\* extract_tools as a function of the tree, for one iteration order of direct_pkgs
extract_tools(t) ==
    LET after1 == Pass1(Ctx0, t, discover_python_files(t))
        after2 == DirectLoop(after1, DirectPkgs(after1))
    IN  AliasLoop(after2, AliasItems(after2.aliases_by_package))

----------------------------------------------------------------------------
(* cli.py *)

\* the sort key reduced to r["name"]
KeyLess_name_only(r, s) == StrLess(r.name, s.name)

\* the sort key of main: (r["module"], r["name"])
KeyLess(r, s) == SeqLess(<<r.module, r.name>>, <<s.module, s.name>>)

RECURSIVE Insert(_, _)
\* r placed after every record that is not greater: the sort is stable
Insert(sorted, r) ==
    IF sorted = <<>> THEN <<r>>
    ELSE IF KeyLess(r, Head(sorted)) THEN <<r>> \o sorted
    ELSE <<Head(sorted)>> \o Insert(Tail(sorted), r)

RECURSIVE Sorted(_)
\* sorted(tools, key=lambda r: (r["module"], r["name"]))
Sorted(tools) ==
    IF tools = <<>> THEN <<>>
    ELSE Insert(Sorted(SubSeq(tools, 1, Len(tools) - 1)), tools[Len(tools)])

----------------------------------------------------------------------------
(* The scanned trees *)

Param(a) == [arg |-> a, annotation |-> None]

\* the parameter list (x)
ArgsX ==
    [posonlyargs |-> <<>>, args |-> <<Param("x")>>, vararg |-> <<>>,
     kwonlyargs |-> <<>>, kw_defaults |-> <<>>, kwarg |-> <<>>, defaults |-> <<>>]

Def(name) ==
    [node |-> "FunctionDef", name |-> name, args |-> ArgsX, returns |-> None,
     doc |-> <<"about " \o name>>, lineno |-> 0]

AsyncDef(name) == [Def(name) EXCEPT !.node = "AsyncFunctionDef", !.doc = <<>>]

\* __all__ = [names...]
All(names) ==
    [node |-> "Assign", targets |-> <<"__all__">>, value |-> [node |-> "List", elts |-> names]]

\* from <level dots><module> import <name> [as <asname>]
From(level, module, name, asname) ==
    [node |-> "ImportFrom", module |-> module, level |-> level,
     names |-> <<[name |-> name, asname |-> asname]>>]

\* one statement per line: fn.lineno is the position of the statement
Numbered(stmts) ==
    [i \in 1..Len(stmts) |->
       IF IsFunction(stmts[i]) THEN [stmts[i] EXCEPT !.lineno = i] ELSE stmts[i]]

Ok(stmts) == [status |-> "ok", body |-> Numbered(stmts)]

Unparsed(status) == [status |-> status, body |-> <<>>]

\* the files a tree of the export scenarios can hold, each with its possible contents
Variants ==
    [p \in {"pkg/__init__.py", "pkg/sub.py", "pkg/sub/__init__.py", "pkg/sub/impl.py",
            "src/pkg/sub.py", "src/pkg/__init__.py", "pkg/f.py", "pkg/_f.py"} |->
       CASE p = "pkg/__init__.py" ->
              {Ok(<<From(1, "sub", "f", None)>>),
               Ok(<<From(1, "sub", "f", "g")>>),
               Ok(<<From(1, "sub", "f", "g"), From(1, "sub.impl", "f", "g")>>),
               Ok(<<From(1, "sub", "f", None), From(1, "sub", "f", "g"),
                    From(1, "sub.impl", "f", "g")>>),
               Ok(<<From(1, "sub", "_f", "g")>>),
               Ok(<<From(1, None, "sub", "g")>>),
               Ok(<<From(1, None, "sub", None)>>),
               Ok(<<From(1, None, "sub", "g"), From(1, None, "f", "g")>>),
               Ok(<<From(1, None, "sub", "g"), From(1, "sub", "f", None)>>),
               Ok(<<All(<<"f">>)>>),
               Ok(<<All(<<"f", "g">>), From(1, "sub", "f", None)>>),
               Ok(<<Def("g"), From(1, "sub", "f", "g")>>),
               Ok(<<From(1, "sub", "*", None)>>),
               Ok(<<From(0, "pkg.sub.impl", "f", None)>>),
               Ok(<<From(2, "sub", "f", None)>>),
               Unparsed("syntax")}
         [] p = "pkg/sub.py" ->
              {Ok(<<Def("f")>>),
               Ok(<<Def("_f")>>),
               Ok(<<Def("f"), AsyncDef("f")>>),
               Ok(<<All(<<"_f">>), Def("_f"), AsyncDef("g")>>),
               Unparsed("oserror")}
         [] p = "pkg/sub/__init__.py" ->
              {Ok(<<>>),
               Ok(<<Def("f")>>),
               Ok(<<All(<<"f">>)>>),
               Ok(<<All(<<>>)>>),
               Ok(<<From(1, "impl", "f", None)>>),
               Ok(<<Def("f"), From(1, "impl", "g", "f")>>),
               Ok(<<From(1, None, "impl", None)>>)}
         [] p = "pkg/sub/impl.py" ->
              {Ok(<<Def("f")>>), Ok(<<Def("g"), Def("f")>>), Ok(<<Def("_f")>>)}
         [] p = "src/pkg/sub.py" -> {Ok(<<AsyncDef("f")>>)}
         [] p = "src/pkg/__init__.py" ->
              {Ok(<<From(1, "sub.impl", "f", "g")>>), Ok(<<All(<<"g">>)>>)}
         [] p = "pkg/f.py" -> {Ok(<<Def("f")>>)}
         [] p = "pkg/_f.py" -> {Ok(<<Def("f"), Def("g")>>)}]

\* the files a tree of the discovery scenarios can hold, each with its possible states
VariantsFS ==
    [p \in {"a.py", "a/b.py", "pkg/__init__.py", "pkg/a.py", "tests/a.py", "pkg/test/a.py",
            "pkg/.a.py", ".git/a.py", "docs.py", "build/__init__.py", "pkg/a.txt",
            "pkg/d.py", "src/a.py", "src/src/a.py", "src/__init__.py", "__init__.py"} |->
       CASE p = "a.py" ->
              {Ok(<<Def("f")>>), Unparsed("syntax"), Unparsed("decode"), Unparsed("oserror")}
         [] p = "a/b.py" -> {Ok(<<Def("f")>>), Unparsed("syntax")}
         [] p = "pkg/__init__.py" ->
              {Ok(<<From(1, None, "a", "b"), From(1, "a", "f", None)>>), Unparsed("decode")}
         [] p = "pkg/a.py" -> {Ok(<<Def("f")>>), Unparsed("oserror"), Unparsed("syntax")}
         [] p = "tests/a.py" -> {Ok(<<Def("f")>>), Unparsed("syntax")}
         [] p = "build/__init__.py" -> {Ok(<<Def("f"), From(1, "a", "f", "g")>>)}
         [] p = "pkg/d.py" -> {Unparsed("dir")}
         [] p = "src/a.py" -> {Ok(<<AsyncDef("f")>>)}
         [] OTHER -> {Ok(<<Def("f")>>)}]

\* the largest number of entries in a scanned tree
MaxFiles == 3

RECURSIVE Product(_, _)
\* the trees that hold exactly the paths of S
Product(variants, S) ==
    IF S = {} THEN {<<>>}
    ELSE LET p == CHOOSE q \in S : TRUE
         IN  {t @@ (p :> e) : t \in Product(variants, S \ {p}), e \in variants[p]}

Trees(variants) ==
    UNION {Product(variants, S) :
             S \in {T \in SUBSET DOMAIN variants : Cardinality(T) <= MaxFiles}}

----------------------------------------------------------------------------
(* The program *)

VARIABLES
    is_dir,              \* whether --repo names a directory
    tree,                \* the entries below the root: path |-> [status, body]
    pc,                  \* "main", "pass1", "pass2", "exit"
    files,               \* the paths discover_python_files yields
    idx,                 \* position of the pass-1 loop in files
    files_scanned,
    files_skipped,
    results,
    seen_ids,
    defs_by_full,
    exports_by_package,
    aliases_by_package,
    all_by_package,
    direct_pkgs,         \* the packages the direct-export loop has yet to visit
    alias_idx,           \* position of the alias loops in AliasItems
    tools_sorted,        \* the list main writes to tools.json
    written,             \* the files main has created in the output directory
    exit_code,           \* the value main returns; -1 while it runs
    call,                \* the arguments of a function applied on its own; <<>> in a run of main
    ret                  \* <<the value the function returned>>; <<>> before it returns

vars == <<is_dir, tree, pc, files, idx, files_scanned, files_skipped, results, seen_ids,
          defs_by_full, exports_by_package, aliases_by_package, all_by_package,
          direct_pkgs, alias_idx, tools_sorted, written, exit_code, call, ret>>

\* the analysis state of extract_tools apart from the two counters
analysis == <<results, seen_ids, defs_by_full, exports_by_package, aliases_by_package,
              all_by_package>>

Ctx ==
    [files_scanned |-> files_scanned, files_skipped |-> files_skipped,
     results |-> results, seen_ids |-> seen_ids, defs_by_full |-> defs_by_full,
     exports_by_package |-> exports_by_package,
     aliases_by_package |-> aliases_by_package, all_by_package |-> all_by_package]

\* the analysis state becomes ctx
Becomes(ctx) ==
    /\ files_scanned' = ctx.files_scanned
    /\ files_skipped' = ctx.files_skipped
    /\ results' = ctx.results
    /\ seen_ids' = ctx.seen_ids
    /\ defs_by_full' = ctx.defs_by_full
    /\ exports_by_package' = ctx.exports_by_package
    /\ aliases_by_package' = ctx.aliases_by_package
    /\ all_by_package' = ctx.all_by_package

Start ==
    /\ pc = "main"
    /\ files = <<>>
    /\ idx = 1
    /\ files_scanned = 0
    /\ files_skipped = 0
    /\ results = <<>>
    /\ seen_ids = {}
    /\ defs_by_full = <<>>
    /\ exports_by_package = <<>>
    /\ aliases_by_package = <<>>
    /\ all_by_package = <<>>
    /\ direct_pkgs = {}
    /\ alias_idx = 1
    /\ tools_sorted = <<>>
    /\ written = {}
    /\ ret = <<>>
    /\ exit_code = -1

Init ==
    /\ \/ is_dir = TRUE /\ tree \in Trees(Variants)
       \/ is_dir = FALSE /\ tree = <<>>
    /\ Start
    /\ call = <<>>

\* main going on to extract_tools although --repo is not a directory
MainNotDir_scans ==
    /\ pc = "main"
    /\ ~is_dir
    /\ files' = discover_python_files(tree)
    /\ idx' = 1
    /\ Becomes(Ctx0)
    /\ pc' = "pass1"
    /\ UNCHANGED <<is_dir, tree, direct_pkgs, alias_idx, tools_sorted, written, call, ret, exit_code>>

\* main: --repo is not a directory
MainNotDir ==
    /\ pc = "main"
    /\ ~is_dir
    /\ exit_code' = 2
    /\ pc' = "exit"
    /\ UNCHANGED <<is_dir, tree, files, idx, files_scanned, files_skipped, analysis,
                   direct_pkgs, alias_idx, tools_sorted, written, call, ret>>

\* main calls extract_tools, which starts the loop over discover_python_files
MainExtract ==
    /\ pc = "main"
    /\ is_dir
    /\ files' = discover_python_files(tree)
    /\ idx' = 1
    /\ Becomes(Ctx0)
    /\ pc' = "pass1"
    /\ UNCHANGED <<is_dir, tree, direct_pkgs, alias_idx, tools_sorted, written, call, ret, exit_code>>

\* the failure of the file leaves the loop: the error reaches main's caller
SkipFile_raises ==
    /\ pc = "pass1"
    /\ idx <= Len(files)
    /\ ReadFails(tree[files[idx]])
    /\ pc' = "exit"
    /\ exit_code' = 1
    /\ UNCHANGED <<is_dir, tree, files, idx, files_scanned, files_skipped, analysis,
                   direct_pkgs, alias_idx, tools_sorted, written, call, ret>>

\* one iteration of the pass-1 loop: the file cannot be read or parsed
SkipFile ==
    /\ pc = "pass1"
    /\ idx <= Len(files)
    /\ ReadFails(tree[files[idx]])
    /\ Becomes(SkipStep(Ctx))
    /\ idx' = idx + 1
    /\ UNCHANGED <<is_dir, tree, pc, files, direct_pkgs, alias_idx, tools_sorted, written, call, ret, exit_code>>

\* one iteration of the pass-1 loop: the file parses
ScanFile ==
    /\ pc = "pass1"
    /\ idx <= Len(files)
    /\ ~ReadFails(tree[files[idx]])
    /\ Becomes(ParseStep(Ctx, files[idx], tree[files[idx]].body))
    /\ idx' = idx + 1
    /\ UNCHANGED <<is_dir, tree, pc, files, direct_pkgs, alias_idx, tools_sorted, written, call, ret, exit_code>>

\* the end of pass 1: direct_pkgs is built
EndPass1 ==
    /\ pc = "pass1"
    /\ idx > Len(files)
    /\ direct_pkgs' = DirectPkgs(Ctx)
    /\ alias_idx' = 1
    /\ pc' = "pass2"
    /\ UNCHANGED <<is_dir, tree, files, idx, files_scanned, files_skipped, analysis,
                   tools_sorted, written, call, ret, exit_code>>

\* one iteration of "for pkg in direct_pkgs": a set, visited in any order
EmitDirect(pkg) ==
    /\ pc = "pass2"
    /\ pkg \in direct_pkgs
    /\ Becomes(DirectStep(Ctx, pkg))
    /\ direct_pkgs' = direct_pkgs \ {pkg}
    /\ UNCHANGED <<is_dir, tree, pc, files, idx, alias_idx, tools_sorted, written, call, ret, exit_code>>

\* one iteration of the inner alias loop
EmitAlias ==
    /\ pc = "pass2"
    /\ direct_pkgs = {}
    /\ alias_idx <= Len(AliasItems(aliases_by_package))
    /\ Becomes(AliasStep(Ctx, AliasItems(aliases_by_package)[alias_idx]))
    /\ alias_idx' = alias_idx + 1
    /\ UNCHANGED <<is_dir, tree, pc, files, idx, direct_pkgs, tools_sorted, written, call, ret, exit_code>>

\* extract_tools returns; main sorts the records, writes them and returns 0
MainWrite ==
    /\ pc = "pass2"
    /\ direct_pkgs = {}
    /\ alias_idx > Len(AliasItems(aliases_by_package))
    /\ tools_sorted' = Sorted(results)
    /\ written' = {"tools.json", "tools_summary.txt"}
    /\ exit_code' = 0
    /\ pc' = "exit"
    /\ UNCHANGED <<is_dir, tree, files, idx, files_scanned, files_skipped, analysis,
                   direct_pkgs, alias_idx, call, ret>>

Next ==
    \/ MainNotDir
    \/ MainExtract
    \/ SkipFile
    \/ ScanFile
    \/ EndPass1
    \/ \E pkg \in direct_pkgs : EmitDirect(pkg)
    \/ EmitAlias
    \/ MainWrite

Spec == Init /\ [][Next]_vars

\* the same program on the trees of the discovery scenarios
InitFS ==
    /\ \/ is_dir = TRUE /\ tree \in Trees(VariantsFS)
       \/ is_dir = FALSE /\ tree = <<>>
    /\ Start
    /\ call = <<>>

SpecFS == InitFS /\ [][Next]_vars

\* the largest number of positional-only, and of positional-or-keyword, parameters
MaxPositional == 2

\* the largest number of keyword-only parameters
MaxKeywordOnly == 2

\* the parameters first + 1 .. last of a parameter list, named by their place
ParamsNamed(letters, first, last) ==
    [i \in 1..(last - first) |-> Param(CharAt(letters, first + i))]

\* ast.arguments with n1 positional-only and n2 positional-or-keyword
\* parameters, the last d of them with a default, and one kw_defaults slot for
\* each keyword-only parameter
Arguments(n1, n2, d, vararg, kw_defaults, kwarg) ==
    [posonlyargs |-> ParamsNamed("abcdefghij", 0, n1),
     args |-> ParamsNamed("abcdefghij", n1, n1 + n2),
     vararg |-> IF vararg THEN <<Param("args")>> ELSE <<>>,
     kwonlyargs |-> ParamsNamed("abcdefghij", n1 + n2, n1 + n2 + Len(kw_defaults)),
     kw_defaults |-> kw_defaults,
     kwarg |-> IF kwarg THEN <<Param("kwargs")>> ELSE <<>>,
     defaults |-> [i \in 1..d |-> "1"]]

\* the argument lists a function of the signature scenarios can have
SigArguments ==
    {Arguments(n[1], n[2], n[3], vararg, kw_defaults, kwarg) :
        n \in {t \in (0..MaxPositional) \X (0..MaxPositional) \X (0..(2 * MaxPositional)) :
                 t[3] <= t[1] + t[2]},
        vararg \in BOOLEAN,
        kw_defaults \in UNION {[1..k -> {None, "1"}] : k \in 0..MaxKeywordOnly},
        kwarg \in BOOLEAN}

\* the functions "def foo(...)" and "async def foo(...)" of the signature scenarios
SigFunctions ==
    {[node |-> kind, name |-> "foo", args |-> a, returns |-> None, doc |-> <<>>, lineno |-> 0] :
        kind \in {"FunctionDef", "AsyncFunctionDef"}, a \in SigArguments}

\* a package that re-exports foo, and its module pkg/m.py under an alias
SigTrees ==
    {("pkg/__init__.py" :> Ok(<<From(1, None, "m", "g"), From(1, "m", "foo", None)>>))
        @@ ("pkg/m.py" :> Ok(<<fn>>))
        @@ ("pkg/z.py" :> Unparsed("syntax")) : fn \in SigFunctions}

\* the same program on the trees of the signature scenarios
InitSig ==
    /\ \/ is_dir = TRUE /\ tree \in SigTrees
       \/ is_dir = FALSE /\ tree = <<>>
    /\ Start
    /\ call = <<>>

SpecSig == InitSig /\ [][Next]_vars

\* the largest number of segments of a current module
MaxDepth == 3

\* the largest relative level of an import
MaxLevel == 5

\* the dotted names of 1 .. MaxDepth segments over two segment names
DottedNames ==
    {Join(segments, ".") : segments \in UNION {[1..n -> {"a", "b"}] : n \in 1..MaxDepth}}

\* the calls _resolve_relative_module(current_module, module, level)
RelCalls ==
    [current_module : DottedNames, module : {None, "x", "x.y"}, level : 0..MaxLevel]

\* _resolve_relative_module applied to the arguments of call
ResolveCall ==
    /\ call # <<>>
    /\ ret = <<>>
    /\ ret' = <<_resolve_relative_module(call.current_module, call.module, call.level)>>
    /\ UNCHANGED <<is_dir, tree, pc, files, idx, files_scanned, files_skipped, analysis,
                   direct_pkgs, alias_idx, tools_sorted, written, exit_code, call>>

\* _resolve_relative_module on its own, for every call of RelCalls
InitRel ==
    /\ is_dir = FALSE /\ tree = <<>>
    /\ Start
    /\ call \in RelCalls

SpecRel == InitRel /\ [][ResolveCall]_vars

----------------------------------------------------------------------------
(* The claims *)

\* extract_tools has returned to main: results is the record list of the run
Returned == pc = "exit" /\ exit_code = 0

\* the pass-1 loop has processed files[j], and the file parsed
Parsed(j) == j < idx /\ ~ReadFails(tree[files[j]])

\* the name is a string constant of a literal __all__ assignment of the body
ListedInAll(body, name) ==
    \E a \in 1..Len(body) :
        /\ body[a].node = "Assign"
        /\ \E t \in 1..Len(body[a].targets) : body[a].targets[t] = "__all__"
        /\ body[a].value.node \in {"List", "Tuple", "Set"}
        /\ \E e \in 1..Len(body[a].value.elts) : body[a].value.elts[e] = name

\* the number of records of the list with the id
CountId(records, id) == Cardinality({r \in 1..Len(records) : records[r].id = id})

\* the record carries the signature, doc, file and line of the definition
Carries(rec, def) ==
    /\ rec.signature = def.signature
    /\ rec.doc_first_line = def.doc_first_line
    /\ rec.file = def.file
    /\ rec.lineno = def.lineno

\* C1: in the record list extract_tools returns no two records share an id
\* (first emission wins, every later emission of the id is dropped).
C1_UniqueIds ==
    Returned => \A i, j \in 1..Len(results) : i # j => results[i].id # results[j].id

\* C2: a top-level function of a parsed file has a definition record
\* "<module>:<name>" exactly when its name has no leading underscore or is in
\* the file's literal __all__; a leading-underscore function outside __all__
\* has no record and no entry in the definitions index.
C2_PublicIffRecord ==
    \A j \in 1..Len(files) : Parsed(j) =>
        LET file == files[j]
            body == tree[file].body
        IN  \A k \in 1..Len(body) : IsFunction(body[k]) =>
                LET name == body[k].name
                    expected == ~StartsWith(name, "_") \/ ListedInAll(body, name)
                    has_record ==
                        \E r \in 1..Len(results) :
                            /\ results[r].id = _module_name_for(file) \o ":" \o name
                            /\ results[r].file = file
                            /\ results[r].lineno = body[k].lineno
                    has_index ==
                        \E d \in 1..Len(defs_by_full) :
                            /\ defs_by_full[d][2].file = file
                            /\ defs_by_full[d][2].lineno = body[k].lineno
                IN  (has_record <=> expected) /\ (~expected => ~has_index)

\* C2 case: one underscore function listed in __all__ has its record, another
\* underscore function outside __all__ has none.
C2_Witness ==
    /\ Returned
    /\ \E j \in 1..Len(files) : Parsed(j) /\
         \E k \in 1..Len(tree[files[j]].body) :
            LET n == tree[files[j]].body[k]
            IN  /\ IsFunction(n) /\ StartsWith(n.name, "_")
                /\ ListedInAll(tree[files[j]].body, n.name)
                /\ \E r \in 1..Len(results) :
                      results[r].file = files[j] /\ results[r].lineno = n.lineno
    /\ \E j \in 1..Len(files) : Parsed(j) /\
         \E k \in 1..Len(tree[files[j]].body) :
            LET n == tree[files[j]].body[k]
            IN  /\ IsFunction(n) /\ StartsWith(n.name, "_")
                /\ ~ListedInAll(tree[files[j]].body, n.name)
                /\ ~\E r \in 1..Len(results) :
                      results[r].file = files[j] /\ results[r].lineno = n.lineno

\* files[j] is a package __init__ that pass 1 has parsed
ParsedInit(j) == Parsed(j) /\ Basename(files[j]) = "__init__.py"

\* the positions <<j, k, i>> of the imported names of the parsed package
\* __init__ files: file j, statement k, name i
ImportedNames ==
    UNION {UNION {{<<j, k, i>> : i \in 1..Len(tree[files[j]].body[k].names)} :
                    k \in {n \in 1..Len(tree[files[j]].body) :
                             tree[files[j]].body[n].node = "ImportFrom"}} :
             j \in {m \in 1..Len(files) : ParsedInit(m)}}

NodeAt(pos) == tree[files[pos[1]]].body[pos[2]]

NameAt(pos) == NodeAt(pos).names[pos[3]]

PackageAt(pos) == _module_name_for(files[pos[1]])

\* the name the import binds in the package
BoundAt(pos) == IF NameAt(pos).asname # None THEN NameAt(pos).asname ELSE NameAt(pos).name

\* pos comes before pos2 in processing order
Before(pos, pos2) ==
    \/ pos[1] < pos2[1]
    \/ pos[1] = pos2[1] /\ pos[2] < pos2[2]
    \/ pos[1] = pos2[1] /\ pos[2] = pos2[2] /\ pos[3] < pos2[3]

\* "from <module> import name [as asname]", not a star import
IsReexport(pos) ==
    /\ ~(NodeAt(pos).module = None /\ NodeAt(pos).level > 0)
    /\ NameAt(pos).name # "*"

\* "from . import name [as asname]"
IsSubpackageImport(pos) == NodeAt(pos).module = None /\ NodeAt(pos).level > 0

\* no later re-export of the same package binds the same name
LastReexport(pos) ==
    ~\E pos2 \in ImportedNames :
        /\ Before(pos, pos2) /\ IsReexport(pos2)
        /\ PackageAt(pos2) = PackageAt(pos) /\ BoundAt(pos2) = BoundAt(pos)

\* no later subpackage import of the same package binds the same alias
LastSubpackageImport(pos) ==
    ~\E pos2 \in ImportedNames :
        /\ Before(pos, pos2) /\ IsSubpackageImport(pos2)
        /\ PackageAt(pos2) = PackageAt(pos) /\ BoundAt(pos2) = BoundAt(pos)

\* the public top-level functions called name that the parsed files of the
\* module define: positions <<j, k>>
PublicDefs(module, name) ==
    UNION {{<<j, k>> : k \in {n \in 1..Len(tree[files[j]].body) :
                                /\ IsFunction(tree[files[j]].body[n])
                                /\ tree[files[j]].body[n].name = name
                                /\ \/ ~StartsWith(name, "_")
                                   \/ ListedInAll(tree[files[j]].body, name)}} :
             j \in {m \in 1..Len(files) :
                      Parsed(m) /\ _module_name_for(files[m]) = module}}

\* "from .sub import helper as public_name" in a package __init__, helper
\* being a known definition: <package>.sub.helper is in the definitions index
IsAliasedReexport(pos) ==
    /\ NodeAt(pos).level = 1
    /\ NodeAt(pos).module # None
    /\ NameAt(pos).name # "*"
    /\ NameAt(pos).asname # None
    /\ DictHas(defs_by_full,
               PackageAt(pos) \o "." \o NodeAt(pos).module \o "." \o NameAt(pos).name)

OriginAt(pos) == PackageAt(pos) \o "." \o NodeAt(pos).module \o "." \o NameAt(pos).name

OriginIdAt(pos) == PackageAt(pos) \o "." \o NodeAt(pos).module \o ":" \o NameAt(pos).name

\* the ids of the record list are pairwise distinct
DistinctIds == \A i, j \in 1..Len(results) : i # j => results[i].id # results[j].id

\* C3 as stated: "from .sub import helper as public_name" yields a record
\* "<package>:public_name" with the signature, doc, file and line of the
\* definition of helper in <package>.sub, and the id "<package>.sub:helper"
\* appears exactly once.  Stated of the runs whose ids are all distinct, where
\* no definition is emitted twice.
C3_ReexportCarriesOrigin ==
    (Returned /\ DistinctIds) =>
        \A pos \in ImportedNames : IsAliasedReexport(pos) =>
            /\ \E r \in 1..Len(results) :
                  /\ results[r].id = PackageAt(pos) \o ":" \o NameAt(pos).asname
                  /\ Carries(results[r], DictGet(defs_by_full, OriginAt(pos)))
            /\ CountId(results, OriginIdAt(pos)) = 1

\* C3 amended: pass 2 adds no record with the origin's id (it appears once per
\* public definition of helper in <package>.sub); and when the declaration is
\* the last re-export of public_name in the package and the package's own
\* module defines no public function public_name, the record
\* "<package>:public_name" carries the signature, doc, file and line of the
\* definitions-index entry of <package>.sub.helper.
C3_LastReexportCarriesOrigin ==
    Returned =>
        \A pos \in ImportedNames : IsAliasedReexport(pos) =>
            /\ CountId(results, OriginIdAt(pos))
                 = Cardinality(PublicDefs(PackageAt(pos) \o "." \o NodeAt(pos).module,
                                          NameAt(pos).name))
            /\ (LastReexport(pos) /\ PublicDefs(PackageAt(pos), NameAt(pos).asname) = {})
                 => \E r \in 1..Len(results) :
                       /\ results[r].id = PackageAt(pos) \o ":" \o NameAt(pos).asname
                       /\ Carries(results[r], DictGet(defs_by_full, OriginAt(pos)))

\* C3 case: an aliased re-export of a known definition has produced its record
C3_Witness ==
    /\ Returned
    /\ \E pos \in ImportedNames :
          /\ IsAliasedReexport(pos)
          /\ LastReexport(pos)
          /\ CountId(results, OriginIdAt(pos)) = 1
          /\ \E r \in 1..Len(results) :
                /\ results[r].id = PackageAt(pos) \o ":" \o NameAt(pos).asname
                /\ results[r].module = PackageAt(pos)
                /\ results[r].file # files[pos[1]]
                /\ Carries(results[r], DictGet(defs_by_full, OriginAt(pos)))

\* "from . import sub as alias" in a package __init__
IsAliasedSubpackage(pos) ==
    /\ NodeAt(pos).module = None
    /\ NodeAt(pos).level = 1
    /\ NameAt(pos).asname # None

\* the effective export mapping of the package in the current state
EffectiveExports(pkg) ==
    _public_exports_for_package(pkg, exports_by_package, all_by_package, defs_by_full)

\* C4 as stated: "from . import sub as alias" yields, for every entry
\* (export_name -> origin) of the effective export mapping of <package>.sub, a
\* record "<package>.alias:export_name" with the origin definition's
\* signature, doc, file and line.
C4_AliasRepublishesAll ==
    Returned =>
        \A pos \in ImportedNames : IsAliasedSubpackage(pos) =>
            LET mapping == EffectiveExports(PackageAt(pos) \o "." \o NameAt(pos).name)
            IN  \A e \in 1..Len(mapping) :
                    /\ DictHas(defs_by_full, mapping[e][2])
                    /\ \E r \in 1..Len(results) :
                          /\ results[r].id = PackageAt(pos) \o "." \o NameAt(pos).asname
                                               \o ":" \o mapping[e][1]
                          /\ Carries(results[r], DictGet(defs_by_full, mapping[e][2]))

\* the alias step of pass 2 that processes AliasItems[alias_idx]
IsAliasStep == pc = "pass2" /\ direct_pkgs = {} /\ alias_idx' = alias_idx + 1

\* C4 amended: the last "from . import sub as alias" of an alias is the binding
\* the alias loops visit; for every entry (export_name -> origin) of the
\* effective export mapping of <package>.sub whose origin is in the
\* definitions index the step leaves a record "<package>.alias:export_name" in
\* the list, a new one with the origin's signature, doc, file and line unless
\* the id had been emitted before; records are never removed afterwards.
C4_AliasRepublishesKnown ==
    [][/\ SubSeq(results', 1, Len(results)) = results
       /\ pc = "pass2" =>
            \A pos \in ImportedNames :
                (IsAliasedSubpackage(pos) /\ LastSubpackageImport(pos)) =>
                    \E a \in 1..Len(AliasItems(aliases_by_package)) :
                        AliasItems(aliases_by_package)[a]
                            = <<PackageAt(pos), NameAt(pos).asname, NameAt(pos).name>>
       /\ IsAliasStep =>
            LET item == AliasItems(aliases_by_package)[alias_idx]
                mapping == EffectiveExports(item[1] \o "." \o item[3])
            IN  \A e \in 1..Len(mapping) : DictHas(defs_by_full, mapping[e][2]) =>
                    LET id == item[1] \o "." \o item[2] \o ":" \o mapping[e][1]
                    IN  /\ \E r \in 1..Len(results') : results'[r].id = id
                        /\ id \notin seen_ids =>
                             \E r \in (Len(results) + 1)..Len(results') :
                                /\ results'[r].id = id
                                /\ Carries(results'[r],
                                           DictGet(defs_by_full, mapping[e][2]))
      ]_vars

\* C4 case: an aliased subpackage with a known export has been republished
C4_Witness ==
    /\ Returned
    /\ \E pos \in ImportedNames :
          /\ IsAliasedSubpackage(pos)
          /\ LET mapping == EffectiveExports(PackageAt(pos) \o "." \o NameAt(pos).name)
             IN  \E e \in 1..Len(mapping) :
                    /\ DictHas(defs_by_full, mapping[e][2])
                    /\ \E r \in 1..Len(results) :
                          /\ results[r].id = PackageAt(pos) \o "." \o NameAt(pos).asname
                                               \o ":" \o mapping[e][1]
                          /\ results[r].module # PackageAt(pos) \o "." \o NameAt(pos).name
                          /\ Carries(results[r], DictGet(defs_by_full, mapping[e][2]))

\* C5: the sorted output of a run is a function of the tree: whatever order
\* the run visits direct_pkgs in, main's sorted list is the sorted list of the
\* run that visits them in one fixed order.
C5_SortedOutputDeterministic ==
    Returned => tools_sorted = Sorted(extract_tools(tree).results)

\* C5 case: two packages of direct_pkgs have each emitted a record of the
\* same name, so the order of their visits shows in the unsorted list
C5_Witness ==
    /\ Returned
    /\ \E a, b \in 1..Len(results) :
          /\ a < b
          /\ results[a].module # results[b].module
          /\ results[a].name = results[b].name
          /\ results[a].module \in DirectPkgs(Ctx)
          /\ results[b].module \in DirectPkgs(Ctx)
          /\ _module_name_for(results[a].file) # results[a].module
          /\ _module_name_for(results[b].file) # results[b].module

\* the pass-1 loop is at a file that cannot be read, decoded or parsed
AtFailingFile == pc = "pass1" /\ idx <= Len(files) /\ ReadFails(tree[files[idx]])

\* C6 as stated: processing a file that cannot be read or parsed adds one to
\* files_skipped and leaves files_scanned unchanged.
C6_SkipCountsOnlySkipped ==
    [][AtFailingFile =>
          files_skipped' = files_skipped + 1 /\ files_scanned' = files_scanned]_vars

\* C6 amended: processing a file that cannot be read or parsed adds one to
\* files_skipped and one to files_scanned, which counts every discovered file.
C6_SkipCountsBoth ==
    [][AtFailingFile =>
          files_skipped' = files_skipped + 1 /\ files_scanned' = files_scanned + 1]_vars

\* C6 case: a run that skipped a file and parsed another
C6_Witness == Returned /\ files_skipped > 0 /\ files_scanned > files_skipped

\* C7: processing a failing file changes nothing of the analysis state, raises
\* no error (the loop goes on to the next file, main has not returned), and
\* pass 1 ends only when every discovered file has been processed.
C7_SkipLeavesAnalysis ==
    [][/\ AtFailingFile =>
            /\ UNCHANGED analysis
            /\ idx' = idx + 1 /\ files' = files
            /\ pc' = "pass1" /\ exit_code' = exit_code
       /\ (pc = "pass1" /\ pc' # "pass1") =>
            idx = Len(files) + 1 /\ files_scanned = Len(files)
      ]_vars

\* C7 case: a file was skipped and a later file contributed a record
C7_Witness ==
    /\ Returned
    /\ \E j, k \in 1..Len(files) :
          /\ j < k
          /\ ReadFails(tree[files[j]])
          /\ \E r \in 1..Len(results) : results[r].file = files[k]

\* a component of the path is in the exclusion set or starts with a dot
HasExcludedPart(rel) ==
    \E i \in 1..Len(Split(rel, "/")) :
        \/ Split(rel, "/")[i] \in EXCLUDED_DIR_NAMES
        \/ CharAt(Split(rel, "/")[i], 1) = "."

\* the regular .py files of the tree without an excluded component
Eligible ==
    {p \in DOMAIN tree :
        EndsWith(p, ".py") /\ tree[p].status # "dir" /\ ~HasExcludedPart(p)}

\* C8: no path with an excluded or dot-prefixed component is yielded, counted
\* as scanned or skipped, or named by a record; the paths are yielded in
\* sorted order.
C8_ExcludedNeverScanned ==
    /\ \A i \in 1..Len(files) : ~HasExcludedPart(files[i])
    /\ \A i \in 1..(Len(files) - 1) : PathLess(files[i], files[i + 1])
    /\ \A r \in 1..Len(results) : ~HasExcludedPart(results[r].file)
    /\ files_scanned <= Cardinality(Eligible)
    /\ Returned =>
          /\ files_scanned = Cardinality(Eligible)
          /\ files_skipped = Cardinality({p \in Eligible : ReadFails(tree[p])})

\* C8 case: a tree with excluded and with eligible files has been scanned
C8_Witness ==
    /\ Returned
    /\ files_scanned >= 2
    /\ \E p \in DOMAIN tree : EndsWith(p, ".py") /\ HasExcludedPart(p)
    /\ \E p \in DOMAIN tree :
          /\ HasExcludedPart(p) /\ p \notin {".git/a.py", "pkg/.a.py"}
          /\ tree[p].status = "syntax"

\* the re-exports pass 1 has processed
Reexports == {pos \in ImportedNames : IsReexport(pos)}

\* the origin the code gives the re-export: the resolved module, a dot, the name
DeclaredOrigin(pos) ==
    _resolve_relative_module(PackageAt(pos), NodeAt(pos).module, NodeAt(pos).level)
        \o "." \o NameAt(pos).name

\* C9: at every point of pass 1 and after it, the export mapping of every
\* package holds, for every export name declared so far, the origin of the
\* last-processed declaration of that name, and nothing else.
C9_ExportsLastWins ==
    /\ \A pos \in Reexports : LastReexport(pos) =>
          /\ DictHas(exports_by_package, PackageAt(pos))
          /\ DictHas(DictGet(exports_by_package, PackageAt(pos)), BoundAt(pos))
          /\ DictGet(DictGet(exports_by_package, PackageAt(pos)), BoundAt(pos))
               = DeclaredOrigin(pos)
    /\ \A p \in 1..Len(exports_by_package) :
          \A e \in 1..Len(exports_by_package[p][2]) :
              \E pos \in Reexports :
                  /\ PackageAt(pos) = exports_by_package[p][1]
                  /\ BoundAt(pos) = exports_by_package[p][2][e][1]

\* C9 case: a name declared twice with different origins holds the later one,
\* next to another name of the same package
C9_Witness ==
    /\ pc = "pass2"
    /\ \E pos, pos2 \in Reexports :
          /\ Before(pos, pos2) /\ LastReexport(pos2)
          /\ PackageAt(pos) = PackageAt(pos2) /\ BoundAt(pos) = BoundAt(pos2)
          /\ DeclaredOrigin(pos) # DeclaredOrigin(pos2)
          /\ DictGet(DictGet(exports_by_package, PackageAt(pos2)), BoundAt(pos2))
               = DeclaredOrigin(pos2)
          /\ \E pos3 \in Reexports :
                /\ Before(pos3, pos) /\ LastReexport(pos3)
                /\ PackageAt(pos3) = PackageAt(pos) /\ BoundAt(pos3) # BoundAt(pos)
                /\ DictGet(DictGet(exports_by_package, PackageAt(pos3)), BoundAt(pos3))
                     = DeclaredOrigin(pos3)

\* the packages pass 2 resolves: direct_pkgs and the targets of the alias map
ResolvedPackages ==
    DirectPkgs(Ctx)
        \cup {AliasItems(aliases_by_package)[i][1] \o "." \o AliasItems(aliases_by_package)[i][3] :
                i \in 1..Len(AliasItems(aliases_by_package))}

\* the literal __all__ assignments of the parsed __init__ files of the package
AllAssignments(pkg) ==
    UNION {{tree[files[j]].body[a].value.elts :
              a \in {b \in 1..Len(tree[files[j]].body) :
                       /\ tree[files[j]].body[b].node = "Assign"
                       /\ tree[files[j]].body[b].targets = <<"__all__">>
                       /\ tree[files[j]].body[b].value.node \in {"List", "Tuple", "Set"}}} :
             j \in {m \in 1..Len(files) : ParsedInit(m) /\ _module_name_for(files[m]) = pkg}}

\* the names the package's __all__ lists
AllNames(pkg) == UNION {{elts[e] : e \in 1..Len(elts)} : elts \in AllAssignments(pkg)}

\* the full paths of the definitions index under the prefix
DefsUnder(prefix) ==
    {defs_by_full[d][1] : d \in {c \in 1..Len(defs_by_full) :
                                   StartsWith(defs_by_full[c][1], prefix \o ".")}}

\* the resolution order of the effective export mapping of pkg, where
\* restricted tells whether the heuristic candidates are held to AllNames(pkg)
ResolutionOrder(pkg, restricted) ==
    LET mapping == EffectiveExports(pkg)
        explicit == DictGetOr(exports_by_package, pkg, <<>>)
        candidates == IF DefsUnder(pkg) # {} THEN DefsUnder(pkg)
                      ELSE DefsUnder(Split(pkg, ".")[1])
        allowed == {full \in candidates : restricted => LastSegment(full) \in AllNames(pkg)}
    IN  IF explicit # <<>> THEN mapping = explicit
        ELSE /\ {mapping[e][1] : e \in 1..Len(mapping)} = {LastSegment(full) : full \in allowed}
             /\ \A e \in 1..Len(mapping) :
                   mapping[e][2] \in allowed /\ LastSegment(mapping[e][2]) = mapping[e][1]

\* C10: the effective export mapping of a package is (1) its explicit
\* re-export mapping when that is not empty; (2) otherwise one definition for
\* each name of the definitions under "<package>.", only the names of the
\* package's __all__ when the package declares one; (3) with the definitions
\* under the top-level segment as candidates only when none lies under
\* "<package>.".
C10_ResolutionOrder ==
    pc = "pass2" =>
        \A pkg \in ResolvedPackages : ResolutionOrder(pkg, AllAssignments(pkg) # {})

\* C10's failing case: a resolved package declares an empty __all__, has no
\* explicit re-exports, and its effective mapping is not empty
C10_EmptyAllUnrestricted ==
    /\ pc = "pass2"
    /\ \E pkg \in ResolvedPackages :
          /\ AllAssignments(pkg) = {<<>>}
          /\ DictGetOr(exports_by_package, pkg, <<>>) = <<>>
          /\ EffectiveExports(pkg) # <<>>

\* the positions <<j, k>> of the public top-level functions of the parsed files
DefinitionsAt ==
    UNION {{<<j, k>> : k \in {n \in 1..Len(tree[files[j]].body) :
                                /\ IsFunction(tree[files[j]].body[n])
                                /\ \/ ~StartsWith(tree[files[j]].body[n].name, "_")
                                   \/ ListedInAll(tree[files[j]].body,
                                                  tree[files[j]].body[n].name)}} :
             j \in {m \in 1..Len(files) : Parsed(m)}}

\* the full dotted path of the definition at the position
FullPathAt(pos) ==
    _module_name_for(files[pos[1]]) \o "." \o tree[files[pos[1]]].body[pos[2]].name

\* the first definition of path a is processed before every definition of
\* path b: sorted file order, then source order
ProcessedFirst(a, b) ==
    \E p \in DefinitionsAt :
        /\ FullPathAt(p) = a
        /\ \A q \in DefinitionsAt : FullPathAt(q) = b =>
              p[1] < q[1] \/ (p[1] = q[1] /\ p[2] < q[2])

\* the rank of a candidate for a name: the last component of its containing
\* module equals the name (highest), equals "_" + name, or anything else
Rank(full, name) ==
    LET parts == Split(full, ".")
        leaf == IF Len(parts) >= 2 THEN parts[Len(parts) - 1] ELSE full
    IN  IF leaf = name THEN "highest" ELSE IF leaf = "_" \o name THEN "second" ELSE "lowest"

\* rank a is strictly below rank b
RankBelow(a, b) ==
    <<a, b>> \in {<<"lowest", "second">>, <<"lowest", "highest">>, <<"second", "highest">>}

\* the candidates of the heuristic inference for the package
HeuristicCandidates(pkg) ==
    IF DefsUnder(pkg) # {} THEN DefsUnder(pkg) ELSE DefsUnder(Split(pkg, ".")[1])

\* the candidates other than kept that supply the same name
Rivals(pkg, kept) ==
    {c \in HeuristicCandidates(pkg) : c # kept /\ LastSegment(c) = LastSegment(kept)}

\* C11: in heuristic inference the definition kept for a name outranks every
\* other candidate of that name, or has the same rank and was processed first.
C11_BestCandidateKept ==
    pc = "pass2" =>
        \A pkg \in ResolvedPackages :
            DictGetOr(exports_by_package, pkg, <<>>) = <<>> =>
                \A e \in 1..Len(EffectiveExports(pkg)) :
                    LET name == EffectiveExports(pkg)[e][1]
                        kept == EffectiveExports(pkg)[e][2]
                    IN  /\ kept \in HeuristicCandidates(pkg)
                        /\ LastSegment(kept) = name
                        /\ \A c \in Rivals(pkg, kept) :
                              \/ RankBelow(Rank(c, name), Rank(kept, name))
                              \/ /\ Rank(c, name) = Rank(kept, name)
                                 /\ ProcessedFirst(kept, c)

\* C11 case: the definition kept for a name has a rival of the same rank
C11_Witness ==
    /\ pc = "pass2"
    /\ \E pkg \in ResolvedPackages :
          /\ DictGetOr(exports_by_package, pkg, <<>>) = <<>>
          /\ \E e \in 1..Len(EffectiveExports(pkg)) :
                \E c \in Rivals(pkg, EffectiveExports(pkg)[e][2]) :
                    /\ Rank(c, EffectiveExports(pkg)[e][1])
                         = Rank(EffectiveExports(pkg)[e][2], EffectiveExports(pkg)[e][1])
                    /\ ProcessedFirst(EffectiveExports(pkg)[e][2], c)

RECURSIVE UltimateOrigin(_, _)
\* the definition an origin ultimately names: the origin itself when it is a
\* key of the definitions index, else what the origin's module re-exports
\* under that name, followed through at most fuel packages; None when unknown
UltimateOrigin(origin, fuel) ==
    IF DictHas(defs_by_full, origin) THEN origin
    ELSE IF fuel = 0 THEN None
    ELSE LET via == DictGetOr(exports_by_package, BeforeLastDot(origin), <<>>)
         IN  IF DictHas(via, LastSegment(origin))
             THEN UltimateOrigin(DictGet(via, LastSegment(origin)), fuel - 1)
             ELSE None

\* C12: every declared export that ultimately names a known public function,
\* directly or through a chain of re-exports, is mapped to a key of the
\* definitions index and yields a record "<package>:<export name>".
C12_ChainedExportsResolved ==
    Returned =>
        \A p \in 1..Len(exports_by_package) :
            \A e \in 1..Len(exports_by_package[p][2]) :
                LET pkg == exports_by_package[p][1]
                    name == exports_by_package[p][2][e][1]
                    origin == EffectiveExports(pkg)[e][2]
                IN  UltimateOrigin(origin, Len(exports_by_package)) # None =>
                        /\ DictHas(defs_by_full, origin)
                        /\ \E r \in 1..Len(results) : results[r].id = pkg \o ":" \o name

\* the function of the signature scenarios
SigFn == tree["pkg/m.py"].body[1]

\* the text between the first "(" of a signature and its last character
Inner(sig) ==
    LET open == Len(Split(sig, "(")[1]) + 1
    IN  SubSeq(sig, open + 1, Len(sig) - 1)

\* the items of the parameter list of a signature: the texts between commas,
\* each item after the first without the blank that follows the comma
Items(sig) ==
    LET raw == Split(Inner(sig), ",")
    IN  IF raw = <<"">> THEN <<>>
        ELSE [i \in 1..Len(raw) |->
                IF i > 1 /\ StartsWith(raw[i], " ") THEN SubSeq(raw[i], 2, Len(raw[i]))
                ELSE raw[i]]

\* the set of the items of a sequence
ItemSet(items) == {items[i] : i \in 1..Len(items)}

\* the parameter is among the items with the default marker, or without it
RenderedAs(items, name, marked) ==
    /\ (name \o "=..." \in items) <=> marked
    /\ (name \in items) <=> ~marked

\* the signatures of the records emitted so far
Signatures == {results[r].signature : r \in 1..Len(results)}

\* C13: the positional parameter at index i (from 0) of P = positional-only
\* followed by positional-or-keyword parameters is marked "=..." exactly when
\* i >= len(P) - D, D the number of positional defaults; a keyword-only
\* parameter exactly when its kw_defaults slot is present; *args and **kwargs
\* never; foo(a, b=1, *, c) is rendered "def foo(a, b=..., *, c)".
C13_DefaultMarkers ==
    \A sig \in Signatures :
        LET items == ItemSet(Items(sig))
            P == SigFn.args.posonlyargs \o SigFn.args.args
            D == Len(SigFn.args.defaults)
        IN  /\ \A i \in 1..Len(P) : RenderedAs(items, P[i].arg, (i - 1) >= Len(P) - D)
            /\ \A i \in 1..Len(SigFn.args.kwonlyargs) :
                  RenderedAs(items, SigFn.args.kwonlyargs[i].arg,
                             SigFn.args.kw_defaults[i] # None)
            /\ SigFn.args.vararg # <<>> => RenderedAs(items, "*args", FALSE)
            /\ SigFn.args.kwarg # <<>> => RenderedAs(items, "**kwargs", FALSE)
            /\ (SigFn.node = "FunctionDef"
                  /\ SigFn.args = Arguments(0, 2, 1, FALSE, <<None>>, FALSE))
                 => sig = "def foo(a, b=..., *, c)"

\* C13 case: a positional-only parameter with a default, and keyword-only
\* parameters with and without one, have been rendered
C13_Witness ==
    /\ Returned
    /\ Len(results) > 0
    /\ Len(SigFn.args.defaults) > Len(SigFn.args.args)
    /\ Len(SigFn.args.defaults) < Len(SigFn.args.posonlyargs) + Len(SigFn.args.args)
    /\ \E i, j \in 1..Len(SigFn.args.kw_defaults) :
          SigFn.args.kw_defaults[i] = None /\ SigFn.args.kw_defaults[j] # None
    /\ SigFn.args.vararg # <<>>

\* an item without its default marker
Unmarked(item) ==
    IF EndsWith(item, "=...") THEN SubSeq(item, 1, Len(item) - Len("=...")) ELSE item

\* the items the parameter list of the function has, in order
ItemOrder(fn) ==
    [i \in 1..Len(fn.args.posonlyargs) |-> fn.args.posonlyargs[i].arg]
        \o (IF Len(fn.args.posonlyargs) >= 1 THEN <<"/">> ELSE <<>>)
        \o [i \in 1..Len(fn.args.args) |-> fn.args.args[i].arg]
        \o [i \in 1..Len(fn.args.vararg) |-> "*" \o fn.args.vararg[i].arg]
        \o (IF Len(fn.args.kwonlyargs) >= 1 /\ Len(fn.args.vararg) = 0 THEN <<"*">> ELSE <<>>)
        \o [i \in 1..Len(fn.args.kwonlyargs) |-> fn.args.kwonlyargs[i].arg]
        \o [i \in 1..Len(fn.args.kwarg) |-> "**" \o fn.args.kwarg[i].arg]

\* C14: the parameter list has, in this order, the positional-only
\* parameters, "/" exactly when there is one, the positional-or-keyword
\* parameters, "*name", a bare "*" exactly when there are keyword-only
\* parameters and no "*name", the keyword-only parameters, "**name"; the
\* items are joined by ", " after "def" or "async def" and the name.
C14_ParameterOrder ==
    \A sig \in Signatures :
        LET items == Items(sig)
            kind == IF SigFn.node = "AsyncFunctionDef" THEN "async def" ELSE "def"
        IN  /\ [i \in 1..Len(items) |-> Unmarked(items[i])] = ItemOrder(SigFn)
            /\ sig = kind \o " " \o SigFn.name \o "(" \o Join(items, ", ") \o ")"

\* C14 case: a function with positional-only parameters, "*name",
\* keyword-only parameters and "**name" has been rendered
C14_Witness ==
    /\ Returned
    /\ Len(results) > 0
    /\ SigFn.args.posonlyargs # <<>> /\ SigFn.args.args # <<>>
    /\ SigFn.args.vararg # <<>> /\ SigFn.args.kwonlyargs # <<>>
    /\ SigFn.args.kwarg # <<>>
    /\ \E sig \in Signatures : StartsWith(sig, "def foo(a, /, ")

\* C15: when --repo is not a directory main returns 2 as its only step:
\* extract_tools is not called, no file is discovered or read, nothing is
\* written; when --repo is a directory main returns 0, having written its output.
C15_InvalidRootExitsFirst ==
    /\ ~is_dir =>
          /\ pc \in {"main", "exit"}
          /\ files = <<>> /\ files_scanned = 0 /\ files_skipped = 0
          /\ results = <<>> /\ written = {}
          /\ pc = "exit" => exit_code = 2
    /\ is_dir =>
          /\ pc = "exit" => exit_code = 0 /\ written # {}
          /\ pc # "exit" => written = {}

\* C15 case: main has returned 2 for a root that is not a directory
C15_Witness == ~is_dir /\ pc = "exit" /\ exit_code = 2 /\ written = {}

\* a module name without the leading source-root segment and without the
\* package-init segment at its end
Normalized(mod) ==
    /\ Split(mod, ".")[1] # "src"
    /\ LastSegment(mod) # "__init__"

\* C16: every module name _module_name_for produces for a scanned file is
\* fully normalized: its first segment is not "src", its last is not
\* "__init__", and the __init__.py of a directory maps to the directory's name.
C16_ModuleNamesNormalized ==
    \A j \in 1..Len(files) :
        /\ Normalized(_module_name_for(files[j]))
        /\ \A r \in 1..Len(results) :
              results[r].file = files[j] /\ results[r].id = results[r].module \o ":" \o results[r].name
                  => Normalized(results[r].module)

\* the resolution of a relative import: the first max(0, n - (level - 1)) of
\* the n segments of the current module, then the module fragment if given
ClimbedPrefix(current_module, level) ==
    LET parts == Split(current_module, ".")
        kept == IF Len(parts) - (level - 1) > 0 THEN Len(parts) - (level - 1) ELSE 0
    IN  Join([i \in 1..kept |-> parts[i]], ".")

\* C17: for a level >= 1 the result of _resolve_relative_module is the
\* climbed prefix, a dot and the module fragment; the fragment alone when the
\* prefix is empty; the prefix alone when no fragment is given.
C17_ClimbsLevelMinusOne ==
    (ret # <<>> /\ call.level >= 1) =>
        LET prefix == ClimbedPrefix(call.current_module, call.level)
        IN  ret[1] = IF call.module = None THEN prefix
                     ELSE IF prefix = "" THEN call.module
                     ELSE prefix \o "." \o call.module

\* the packages whose __init__ file was parsed
ParsedPackages == {_module_name_for(files[j]) : j \in {m \in 1..Len(files) : ParsedInit(m)}}

\* C18: every package whose __init__ was parsed and declares no explicit
\* re-exports gets, for each export inferred for it from the definitions
\* index, a record "<package>:<name>".  (Packages declaring an empty __all__
\* are left aside: what is inferred for them is the matter of C10.)
C18_HeuristicForEveryPackage ==
    Returned =>
        \A pkg \in ParsedPackages :
            (/\ DictGetOr(exports_by_package, pkg, <<>>) = <<>>
             /\ AllAssignments(pkg) # {} => AllNames(pkg) # {}) =>
                \A e \in 1..Len(EffectiveExports(pkg)) :
                    \E r \in 1..Len(results) :
                        results[r].id = pkg \o ":" \o EffectiveExports(pkg)[e][1]

\* the phase of emission a state is in: definitions, direct exports, alias exports
Phase ==
    IF pc \in {"main", "pass1"} THEN 1
    ELSE IF pc = "pass2" /\ direct_pkgs # {} THEN 2
    ELSE IF pc = "pass2" THEN 3
    ELSE 4

\* the records a step appends
Appended(n) == results'[Len(results) + n]

\* the package and the mapping a step of pass 2 emits
EmittedFor ==
    IF direct_pkgs # {}
    THEN {<<pkg, EffectiveExports(pkg)>> : pkg \in direct_pkgs \ direct_pkgs'}
    ELSE {<<AliasItems(aliases_by_package)[alias_idx][1] \o "."
                \o AliasItems(aliases_by_package)[alias_idx][2],
            EffectiveExports(AliasItems(aliases_by_package)[alias_idx][1] \o "."
                \o AliasItems(aliases_by_package)[alias_idx][3])>>}

\* C19: the phases follow one another: definition records in pass 1, then the
\* direct exports, then the alias exports.  A step of pass 2 keeps every
\* record already in the list and appends only records whose id is new, so a
\* definition is never replaced by an export nor a direct export by an alias
\* export; each appended record is an entry of the emitted mapping with a known
\* origin, and a mapping without known origins leaves the list and the seen
\* ids unchanged.
C19_EmissionPrecedence ==
    [][/\ Phase' >= Phase
       /\ (Phase = 1 /\ Len(results') > Len(results)) =>
             \A n \in 1..(Len(results') - Len(results)) :
                 /\ Appended(n).file = files[idx]
                 /\ Appended(n).module = _module_name_for(files[idx])
       /\ (pc = "pass2" /\ pc' = "pass2") =>
             /\ Len(results') >= Len(results)
             /\ SubSeq(results', 1, Len(results)) = results
             /\ seen_ids' = seen_ids \cup {results'[r].id : r \in 1..Len(results')}
             /\ \A n \in 1..(Len(results') - Len(results)) :
                   /\ Appended(n).id \notin seen_ids
                   /\ \A m \in 1..(n - 1) : Appended(m).id # Appended(n).id
                   /\ \E em \in EmittedFor : \E e \in 1..Len(em[2]) :
                         /\ Appended(n).id = em[1] \o ":" \o em[2][e][1]
                         /\ DictHas(defs_by_full, em[2][e][2])
                         /\ Carries(Appended(n), DictGet(defs_by_full, em[2][e][2]))
             /\ (\A em \in EmittedFor : \A e \in 1..Len(em[2]) :
                     ~DictHas(defs_by_full, em[2][e][2]))
                   => results' = results /\ seen_ids' = seen_ids
      ]_vars

\* C19 case: a package defines g in its __init__ and re-exports a known
\* function as g; the run has ended with the definition's record under the id
C19_Witness ==
    /\ Returned
    /\ \E p \in 1..Len(exports_by_package) :
          \E e \in 1..Len(exports_by_package[p][2]) :
              LET pkg == exports_by_package[p][1]
                  name == exports_by_package[p][2][e][1]
                  origin == exports_by_package[p][2][e][2]
              IN  /\ DictHas(defs_by_full, origin)
                  /\ DictHas(defs_by_full, pkg \o "." \o name)
                  /\ DictGet(defs_by_full, origin).file
                       # DictGet(defs_by_full, pkg \o "." \o name).file
                  /\ \E r \in 1..Len(results) :
                        /\ results[r].id = pkg \o ":" \o name
                        /\ Carries(results[r], DictGet(defs_by_full, pkg \o "." \o name))
                  /\ CountId(results, pkg \o ":" \o name) = 1

====
